---- MODULE Spec2Model ----
(***************************************************************************)
(* Cognatus: the ScientificMethodEngine of src/dist/src/index.js, the      *)
(* seven-stage research workflow with hypothesis scoring.                  *)
(*                                                                         *)
(* The engine object is the variable state (this.state of the class); one  *)
(* action per tool the server registers calls the engine method the tool   *)
(* is bound to.  lastCall is the call being answered and how it ended, so  *)
(* that properties of the form "a call that fails leaves ... unchanged"    *)
(* can be stated over a step; it is cleared when the result is returned.   *)
(* replica is a second instance of the class, given the calls of the first *)
(* where the two are compared.                                             *)
(*                                                                         *)
(* The methods are modelled on every JavaScript value a caller of the      *)
(* engine can pass, not only on the values the zod schemas of the tool     *)
(* registrations let through.                                              *)
(***************************************************************************)
EXTENDS Integers, Sequences, FiniteSets, TLC

VARIABLES state, lastCall, inFlight, numericData, replica

vars == <<state, lastCall, inFlight, numericData, replica>>

(***************************************************************************)
(* Bounds of the model.                                                    *)
(***************************************************************************)
\* length of each of literature, hypotheses, experiments, data, conclusions
MaxLen == 2
\* number of entries the five of them hold together
MaxEntries == 5
\* number of hypotheses of the scoring runs
MaxHypotheses == 3
MaxReported == 2
MaxInFlight == 2
MaxSample == 5

(***************************************************************************)
(* JavaScript values handed to the engine: a string, a number,             *)
(* an array of strings, or undefined.  A number is NaN or a count of       *)
(* tenths (ScoreUnit stands for 1.0).                                      *)
(***************************************************************************)
Undefined == [type |-> "undefined", str |-> "", num |-> 0, arr |-> <<>>]
Str(t) == [type |-> "string", str |-> t, num |-> 0, arr |-> <<>>]
Num(n) == [type |-> "number", str |-> "", num |-> n, arr |-> <<>>]
Arr(a) == [type |-> "array", str |-> "", num |-> 0, arr |-> a]
NaN == [type |-> "number", str |-> "NaN", num |-> 0, arr |-> <<>>]

isNaN(v) == v.str = "NaN"

\* the < and > of two numbers: a comparison with NaN is false
lessThan(v, w) == ~isNaN(v) /\ ~isNaN(w) /\ v.num < w.num
greaterThan(v, w) == ~isNaN(v) /\ ~isNaN(w) /\ v.num > w.num

ScoreUnit == 10

(***************************************************************************)
(* Stages and the transition table.                                        *)
(***************************************************************************)
Observation == "observation"
LiteratureReview == "literature_review"
HypothesisFormation == "hypothesis_formation"
ExperimentDesign == "experiment_design"
DataCollection == "data_collection"
Analysis == "analysis"
Conclusion == "conclusion"

Stage ==
  {Observation, LiteratureReview, HypothesisFormation, ExperimentDesign,
   DataCollection, Analysis, Conclusion}

STAGE_TRANSITIONS_reopens ==
  [s \in Stage |->
     CASE s = Observation -> <<LiteratureReview>>
       [] s = LiteratureReview -> <<HypothesisFormation>>
       [] s = HypothesisFormation -> <<ExperimentDesign, HypothesisFormation>>
       [] s = ExperimentDesign -> <<DataCollection>>
       [] s = DataCollection -> <<Analysis>>
       [] s = Analysis -> <<Conclusion>>
       [] s = Conclusion -> <<LiteratureReview>>]

STAGE_TRANSITIONS ==
  [s \in Stage |->
     CASE s = Observation -> <<LiteratureReview>>
       [] s = LiteratureReview -> <<HypothesisFormation>>
       [] s = HypothesisFormation -> <<ExperimentDesign, HypothesisFormation>>
       [] s = ExperimentDesign -> <<DataCollection>>
       [] s = DataCollection -> <<Analysis>>
       [] s = Analysis -> <<Conclusion>>
       [] s = Conclusion -> <<>>]

\* Array.prototype.includes
includes(arr, x) == \E i \in 1..Len(arr) : arr[i] = x

\* Array.prototype.push
push_front(arr, x) == <<x>> \o arr

push(arr, x) == Append(arr, x)

(***************************************************************************)
(* How a call ends.  The engine throws plain Error objects; the kind is    *)
(* the message family.  raised says that the exception left the engine     *)
(* method (the method has no safeExecute around it).                       *)
(***************************************************************************)
Ok == "ok"
ValidationError == "ValidationError"
InvalidTransitionError == "InvalidTransitionError"
HypothesisNotFoundError == "HypothesisNotFoundError"
InsufficientDataError == "InsufficientDataError"

\* the result of running a method body: the engine state it leaves and the
\* error it threw, if any
Done(s) == [state |-> s, error |-> Ok]
Throw(s, e) == [state |-> s, error |-> e]

getInitialState ==
  [currentStage |-> Observation,
   problemStatement |-> <<>>,
   literature |-> <<>>,
   hypotheses |-> <<>>,
   experiments |-> <<>>,
   data |-> <<>>,
   analysis |-> <<>>,
   conclusions |-> <<>>]

transitionTo_unchecked(s, nextStage) ==
  Done([s EXCEPT !.currentStage = nextStage])

transitionTo_stays(s, nextStage) ==
  IF includes(STAGE_TRANSITIONS[s.currentStage], nextStage)
  THEN Done(s)
  ELSE Throw(s, InvalidTransitionError)

transitionTo(s, nextStage) ==
  IF includes(STAGE_TRANSITIONS[s.currentStage], nextStage)
  THEN Done([s EXCEPT !.currentStage = nextStage])
  ELSE Throw(s, InvalidTransitionError)

\* TRUE when validateInput returns without throwing
validateInput(input, expectedFields) ==
  \A i \in 1..Len(expectedFields) :
    LET field == expectedFields[i] IN
      /\ field \in DOMAIN input
      /\ input[field].type # "undefined"
      /\ ~(input[field].type = "string" /\ input[field].str = "")

\* what safeExecute makes of a method body: the error is caught and returned
\* as text
safeExecute(r) == [state |-> r.state, outcome |-> r.error, raised |-> FALSE]

\* a method body that runs bare: the error leaves the method
unguarded(r) == [state |-> r.state, outcome |-> r.error, raised |-> r.error # Ok]

\* Date.now().toString(36) + Math.random().toString(36).substr(2); now is the
\* text of the clock reading and r the random draw, r = 0 standing for
\* Math.random() = 0, whose text "0" has nothing after its second character
generateId(now, r) == now \o (IF r = 0 THEN "" ELSE ToString(r))

newHypothesis(id, description) ==
  [id |-> id, description |-> description, evidenceScore |-> Num(0)]

observation(s, input) ==
  safeExecute(
    IF ~validateInput(input, <<"problemStatement">>)
    THEN Throw(s, ValidationError)
    ELSE IF Len(input.problemStatement.str) < 10
    THEN Throw(s, ValidationError)
    ELSE transitionTo([s EXCEPT !.problemStatement = <<input.problemStatement.str>>],
                      LiteratureReview))

literature_review(s, input) ==
  safeExecute(
    IF ~validateInput(input, <<"literature">>)
    THEN Throw(s, ValidationError)
    ELSE IF Len(input.literature.str) < 20
    THEN Throw(s, ValidationError)
    ELSE transitionTo([s EXCEPT !.literature = push(@, input.literature.str)],
                      HypothesisFormation))

hypothesis_formation_pushesFirst(s, input, id) ==
  safeExecute(
    IF ~validateInput(input, <<"hypothesis">>)
    THEN Throw(s, ValidationError)
    ELSE IF Len(input.hypothesis.str) < 15
    THEN Throw([s EXCEPT !.hypotheses = push(@, newHypothesis(id, input.hypothesis.str))],
               ValidationError)
    ELSE transitionTo(
           [s EXCEPT !.hypotheses = push(@, newHypothesis(id, input.hypothesis.str))],
           ExperimentDesign))

hypothesis_formation_uniqueIds(s, input, id) ==
  safeExecute(
    IF ~validateInput(input, <<"hypothesis">>)
    THEN Throw(s, ValidationError)
    ELSE IF Len(input.hypothesis.str) < 15
    THEN Throw(s, ValidationError)
    ELSE IF \E i \in 1..Len(s.hypotheses) : s.hypotheses[i].id = id
    THEN Throw(s, ValidationError)
    ELSE transitionTo(
           [s EXCEPT !.hypotheses = push(@, newHypothesis(id, input.hypothesis.str))],
           ExperimentDesign))

hypothesis_formation(s, input, id) ==
  safeExecute(
    IF ~validateInput(input, <<"hypothesis">>)
    THEN Throw(s, ValidationError)
    ELSE IF Len(input.hypothesis.str) < 15
    THEN Throw(s, ValidationError)
    ELSE transitionTo(
           [s EXCEPT !.hypotheses = push(@, newHypothesis(id, input.hypothesis.str))],
           ExperimentDesign))

\* hypotheses.forEach(h => push a new hypothesis); ids[i] is the id drawn
\* for the i-th entry
RECURSIVE pushEach_backwards(_, _, _, _)
pushEach_backwards(hyps, texts, ids, i) ==
  IF i > Len(texts) THEN hyps
  ELSE push(pushEach_backwards(hyps, texts, ids, i + 1), newHypothesis(ids[i], texts[i]))

RECURSIVE pushEach(_, _, _, _)
pushEach(hyps, texts, ids, i) ==
  IF i > Len(texts) THEN hyps
  ELSE pushEach(push(hyps, newHypothesis(ids[i], texts[i])), texts, ids, i + 1)

hypothesis_generation_resets(s, input, ids) ==
  unguarded(
    transitionTo([s EXCEPT !.hypotheses = pushEach(<<>>, input.hypotheses.arr, ids, 1)],
                 HypothesisFormation))

hypothesis_generation(s, input, ids) ==
  unguarded(
    transitionTo([s EXCEPT !.hypotheses = pushEach(@, input.hypotheses.arr, ids, 1)],
                 HypothesisFormation))

experiment_design(s, input) ==
  unguarded(
    transitionTo([s EXCEPT !.experiments = push(@, input.experiment.str)],
                 DataCollection))

data_collection(s, input) ==
  unguarded(
    transitionTo([s EXCEPT !.data = push(@, input.data.str)], Analysis))

analysis(s, input) ==
  unguarded(
    transitionTo([s EXCEPT !.analysis = <<input.analysis.str>>], Conclusion))

conclusion_transitions(s, input) ==
  unguarded(
    transitionTo([s EXCEPT !.conclusions = push(@, input.conclusion.str)], Conclusion))

conclusion(s, input) ==
  unguarded(Done([s EXCEPT !.conclusions = push(@, input.conclusion.str)]))

literature_search_transitions(s, input) ==
  safeExecute(
    IF ~validateInput(input, <<"query">>)
    THEN Throw(s, ValidationError)
    ELSE IF Len(input.query.str) < 3
    THEN Throw(s, ValidationError)
    ELSE transitionTo([s EXCEPT !.literature =
                         push(@, "Literature search requested: \"" \o input.query.str \o "\"")],
                      HypothesisFormation))

literature_search(s, input) ==
  safeExecute(
    IF ~validateInput(input, <<"query">>)
    THEN Throw(s, ValidationError)
    ELSE IF Len(input.query.str) < 3
    THEN Throw(s, ValidationError)
    ELSE Done([s EXCEPT !.literature =
                 push(@, "Literature search requested: \"" \o input.query.str \o "\"")]))

(***************************************************************************)
(* parseDataPoints: every character that is not a digit, "." or "-"        *)
(* becomes a blank, the point is split at blanks, and the pieces that      *)
(* parseFloat reads as a number are kept.                                  *)
(***************************************************************************)
Digits == {"0", "1", "2", "3", "4", "5", "6", "7", "8", "9"}

charAt(str, i) == SubSeq(str, i, i)

isDigitAt(str, i) == i <= Len(str) /\ charAt(str, i) \in Digits

\* the pieces of point.replace(/[^\d.-]/g, ' ').trim().split(/\s+/) that are
\* not empty
RECURSIVE splitPoint(_, _, _, _)
splitPoint(point, i, piece, pieces) ==
  IF i > Len(point)
  THEN IF piece = "" THEN pieces ELSE Append(pieces, piece)
  ELSE IF charAt(point, i) \in Digits \cup {".", "-"}
  THEN splitPoint(point, i + 1, piece \o charAt(point, i), pieces)
  ELSE splitPoint(point, i + 1, "", IF piece = "" THEN pieces ELSE Append(pieces, piece))

\* !isNaN(parseFloat(n)) for a piece of digits, "." and "-": parseFloat reads
\* the longest leading number, an optional "-" then digits or "." and a digit
isNumber(n) ==
  \/ isDigitAt(n, 1)
  \/ charAt(n, 1) = "." /\ isDigitAt(n, 2)
  \/ charAt(n, 1) = "-" /\ isDigitAt(n, 2)
  \/ charAt(n, 1) = "-" /\ Len(n) >= 2 /\ charAt(n, 2) = "." /\ isDigitAt(n, 3)

\* the pieces of every data point that are numbers, in order (the texts of
\* numericData)
parseDataPoints_raw(data) == data

RECURSIVE parseDataPoints(_)
parseDataPoints(data) ==
  IF Len(data) = 0 THEN <<>>
  ELSE SelectSeq(splitPoint(Head(data), 1, "", <<>>), isNumber)
         \o parseDataPoints(Tail(data))

analysisTypeOf(input) ==
  IF "analysisType" \in DOMAIN input /\ input.analysisType.type = "string"
  THEN input.analysisType.str
  ELSE "comprehensive"

data_analysis(s, input) ==
  safeExecute(
    IF ~validateInput(input, <<"data">>)
    THEN Throw(s, ValidationError)
    ELSE IF Len(input.data.arr) < 2
    THEN Throw(s, ValidationError)
    ELSE IF Len(parseDataPoints(input.data.arr)) = 0
    THEN Throw(s, InsufficientDataError)
    ELSE Done([s EXCEPT !.analysis =
                 <<"Statistical analysis completed: " \o analysisTypeOf(input)
                   \o " analysis of " \o ToString(Len(input.data.arr))
                   \o " data points (" \o ToString(Len(parseDataPoints(input.data.arr)))
                   \o " numeric)">>]))

(***************************************************************************)
(* The statistics of data_analysis, on the numbers parseDataPoints kept.   *)
(* Quotients are kept exact as [num, den]; 0 / 0 is NaN.  An entry of a    *)
(* list of statistics carries its metric and, where the model computes it, *)
(* the quantity its value is rounded from.                                 *)
(***************************************************************************)
Quotient(num, den) == [num |-> num, den |-> den]

\* [...data].sort((a, b) => a - b)
RECURSIVE insertSorted(_, _)
insertSorted(sorted, x) ==
  IF sorted = <<>> THEN <<x>>
  ELSE IF x < Head(sorted) THEN <<x>> \o sorted
  ELSE <<Head(sorted)>> \o insertSorted(Tail(sorted), x)

RECURSIVE sortNumbers(_)
sortNumbers(data) ==
  IF data = <<>> THEN <<>>
  ELSE insertSorted(sortNumbers(SubSeq(data, 1, Len(data) - 1)), data[Len(data)])

\* data.reduce((acc, val) => acc + val, 0)
RECURSIVE sumOf(_)
sumOf(data) == IF data = <<>> THEN 0 ELSE Head(data) + sumOf(Tail(data))

RECURSIVE sumOfSquares(_)
sumOfSquares(data) ==
  IF data = <<>> THEN 0 ELSE Head(data) * Head(data) + sumOfSquares(Tail(data))

\* percentile(sortedData, p) for p = pn / pd; the positions of the model
\* start at 1
percentile_lower(sortedData, pn, pd) ==
  Quotient(sortedData[((pn * (Len(sortedData) - 1)) \div pd) + 1] * pd, pd)

percentile(sortedData, pn, pd) ==
  LET index == pn * (Len(sortedData) - 1)
      lower == index \div pd
      weight == index % pd
  IN IF weight = 0
     THEN Quotient(sortedData[lower + 1] * pd, pd)
     ELSE Quotient(sortedData[lower + 1] * (pd - weight) + sortedData[lower + 2] * weight,
                   pd)

\* the entries of calculateDescriptiveStats; the variance
\* sum((x - mean)^2) / (n - 1) is (n * sum(x^2) - sum(x)^2) / (n * (n - 1))
calculateDescriptiveStats(data) ==
  IF Len(data) = 0 THEN <<>>
  ELSE LET sorted == sortNumbers(data)
           n == Len(data)
           q1 == percentile(sorted, 1, 4)
           median == percentile(sorted, 1, 2)
           q3 == percentile(sorted, 3, 4)
       IN <<[metric |-> "Sample Size (n)", exact |-> Quotient(n, 1)],
            [metric |-> "Mean", exact |-> Quotient(sumOf(data), n)],
            [metric |-> "Standard Deviation",
             exact |-> Quotient(n * sumOfSquares(data) - sumOf(data) * sumOf(data),
                                n * (n - 1))],
            [metric |-> "Median", exact |-> median],
            [metric |-> "Range", exact |-> Quotient(sorted[n] - sorted[1], 1)],
            [metric |-> "Interquartile Range (IQR)",
             exact |-> Quotient(q3.num - q1.num, 4)]>>

\* n * sum(x^2) - sum(x)^2: the variance is this over n * (n - 1), and it is
\* positive exactly when the standard deviation is a positive number
spread(data) == Len(data) * sumOfSquares(data) - sumOf(data) * sumOf(data)

\* the t-critical values of getTCritical, in thousandths, by degrees of freedom
tTable ==
  [df \in {1, 2, 3, 4, 5, 6, 7, 8, 9, 10, 15, 20, 25} |->
     CASE df = 1 -> 12706 [] df = 2 -> 4303 [] df = 3 -> 3182 [] df = 4 -> 2776
       [] df = 5 -> 2571 [] df = 6 -> 2447 [] df = 7 -> 2365 [] df = 8 -> 2306
       [] df = 9 -> 2262 [] df = 10 -> 2228 [] df = 15 -> 2131 [] df = 20 -> 2086
       [] df = 25 -> 2060]

distance(a, b) == IF a >= b THEN a - b ELSE b - a

\* the reduce over the keys in ascending order keeps the earlier key on a tie
closestDf(df) ==
  CHOOSE k \in DOMAIN tTable :
    \A j \in DOMAIN tTable :
      distance(k, df) < distance(j, df) \/ (distance(k, df) = distance(j, df) /\ k <= j)

\* getTCritical(df, alpha) in thousandths; alpha is not read
getTCritical_byAlpha(df, alpha) ==
  IF alpha < 25 THEN 2576 ELSE IF df >= 30 THEN 1960 ELSE tTable[closestDf(df)]

getTCritical(df, alpha) ==
  IF df >= 30 THEN 1960 ELSE tTable[closestDf(df)]

\* the two entries of calculateInferentialStats for confidenceLevel in
\* percent.  stdError = stdDev / sqrt(n) and marginError = tCritical *
\* stdError are kept as their exact parts; with a positive stdDev,
\* stdError < stdDev * c is 1 < n * c^2 and marginError < stdDev * c is
\* tCritical^2 < n * c^2, and with stdDev 0 or NaN every comparison is false
calculateInferentialStats(data, confidenceLevel) ==
  LET n == Len(data)
      alpha == 100 - confidenceLevel
      tCritical == getTCritical(n - 1, (alpha * 10) \div 2)
      stdErrorSquared == Quotient(spread(data), n * n * (n - 1))
  IN <<[metric |-> "Standard Error of Mean",
        stdErrorSquared |-> stdErrorSquared,
        significance |->
          IF spread(data) > 0 /\ 100 < n THEN "high"
          ELSE IF spread(data) > 0 /\ 100 < n * 9 THEN "moderate"
          ELSE "low"],
       [metric |-> ToString(confidenceLevel) \o "% Confidence Interval",
        tCritical |-> tCritical,
        stdErrorSquared |-> stdErrorSquared,
        significance |->
          IF spread(data) > 0 /\ tCritical * tCritical < n * 40000 THEN "high"
          ELSE IF spread(data) > 0 /\ tCritical * tCritical < n * 250000 THEN "moderate"
          ELSE "low"]>>

calculateCorrelations_fromThree(data) ==
  IF Len(data) < 3 THEN <<>> ELSE <<[metric |-> "Serial Correlation (Lag-1)"]>>

\* the pairs are the data.length - 1 pairs of adjacent values
calculateCorrelations(data) ==
  IF Len(data) < 4 THEN <<>>
  ELSE IF Len(data) - 1 < 3 THEN <<>>
  ELSE <<[metric |-> "Serial Correlation (Lag-1)"]>>

\* the square of tStat = mean / (stdDev / sqrt(n)), exact:
\* sum(x)^2 * (n - 1) / (n * sum(x^2) - sum(x)^2); 0 / 0 is NaN and a positive
\* number over 0 is Infinity
tStatSquared(data) ==
  Quotient(sumOf(data) * sumOf(data) * (Len(data) - 1), spread(data))

\* Math.abs(tStat) > cn / cd, on the square of tStat
absGreater(tSquared, cn, cd) ==
  IF tSquared.den = 0 THEN tSquared.num > 0
  ELSE tSquared.num * cd * cd > cn * cn * tSquared.den

\* calculatePValue(tStat, df), the p-value in thousandths; df is not read
calculatePValue(tSquared, df) ==
  IF absGreater(tSquared, 3, 1) THEN 1
  ELSE IF absGreater(tSquared, 5, 2) THEN 10
  ELSE IF absGreater(tSquared, 2, 1) THEN 50
  ELSE IF absGreater(tSquared, 3, 2) THEN 100
  ELSE 200

\* the end of simpleNormalityTest: the p-value in thousandths for
\* normalityScore = |skewness| + |kurtosis|, a number in tenths or NaN.  The
\* score is not rational in the data; the model takes it as given
simpleNormalityTest(normalityScore) ==
  IF greaterThan(normalityScore, Num(20)) THEN 10
  ELSE IF greaterThan(normalityScore, Num(10)) THEN 50
  ELSE IF greaterThan(normalityScore, Num(5)) THEN 100
  ELSE 500

\* significant: pValue < 0.05
significant_inclusive(pValue) == pValue <= 50

significant(pValue) == pValue < 50

performHypothesisTests(data, normalityScore) ==
  LET n == Len(data)
      pValue == calculatePValue(tStatSquared(data), n - 1)
      normalityP == simpleNormalityTest(normalityScore)
  IN <<[testType |-> "One-sample t-test",
        tStatSquared |-> tStatSquared(data),
        pValue |-> pValue,
        significant |-> significant(pValue)]>>
       \o (IF n >= 3 /\ n <= 50
           THEN <<[testType |-> "Normality test (approximate)",
                   normalityScore |-> normalityScore,
                   pValue |-> normalityP,
                   significant |-> significant(normalityP)]>>
           ELSE <<>>)

performRegressionAnalysis(data) ==
  IF Len(data) < 4 THEN <<>>
  ELSE <<[metric |-> "Trend Slope"], [metric |-> "R-squared"]>>

\* the report of generateStatisticalAnalysis; a field the switch does not
\* assign is absent
generateStatisticalAnalysis(data, analysisType, confidenceLevel, normalityScore) ==
  LET descriptive == [descriptiveStats |-> calculateDescriptiveStats(data)] IN
    CASE analysisType = "descriptive" -> descriptive
      [] analysisType = "inferential" ->
           [descriptiveStats |-> descriptive.descriptiveStats,
            inferentialStats |-> calculateInferentialStats(data, confidenceLevel),
            hypothesisTests |-> performHypothesisTests(data, normalityScore)]
      [] analysisType = "correlation" ->
           [descriptiveStats |-> descriptive.descriptiveStats,
            correlations |-> calculateCorrelations(data)]
      [] analysisType = "regression" ->
           [descriptiveStats |-> descriptive.descriptiveStats,
            inferentialStats |-> performRegressionAnalysis(data)]
      [] OTHER ->
           [descriptiveStats |-> descriptive.descriptiveStats,
            inferentialStats |-> calculateInferentialStats(data, confidenceLevel),
            correlations |-> calculateCorrelations(data),
            hypothesisTests |-> performHypothesisTests(data, normalityScore)]

\* this.state.hypotheses.find(h => h.id === hypothesisId): the position of
\* the first hypothesis with that id, 0 when there is none
RECURSIVE findFrom(_, _, _)
findFrom(hyps, id, i) ==
  IF i > Len(hyps) THEN 0
  ELSE IF hyps[i].id = id THEN i
  ELSE findFrom(hyps, id, i + 1)

find(hyps, id) == findFrom(hyps, id, 1)

\* score < 0 || score > 1
scoreOutOfRange(score) == lessThan(score, Num(0)) \/ greaterThan(score, Num(ScoreUnit))

score_hypothesis_accumulates(s, input) ==
  safeExecute(
    IF ~validateInput(input, <<"hypothesisId", "score">>)
    THEN Throw(s, ValidationError)
    ELSE IF scoreOutOfRange(input.score)
    THEN Throw(s, ValidationError)
    ELSE IF find(s.hypotheses, input.hypothesisId.str) = 0
    THEN Throw(s, HypothesisNotFoundError)
    ELSE Done([s EXCEPT
                 !.hypotheses[find(s.hypotheses, input.hypothesisId.str)].evidenceScore =
                   Num(@.num + input.score.num)]))

score_hypothesis(s, input) ==
  safeExecute(
    IF ~validateInput(input, <<"hypothesisId", "score">>)
    THEN Throw(s, ValidationError)
    ELSE IF scoreOutOfRange(input.score)
    THEN Throw(s, ValidationError)
    ELSE IF find(s.hypotheses, input.hypothesisId.str) = 0
    THEN Throw(s, HypothesisNotFoundError)
    ELSE Done([s EXCEPT
                 !.hypotheses[find(s.hypotheses, input.hypothesisId.str)].evidenceScore =
                   input.score]))

\* the three methods below read the state and build a text
check_for_breakthrough(s) == safeExecute(Done(s))

get_state_resets(s) == safeExecute(Done(getInitialState))

get_state(s) == safeExecute(Done(s))

\* hypotheses.reduce((sum, h) => sum + h.evidenceScore, 0): the sum of the
\* scores in tenths, NaN as soon as one of them is NaN
RECURSIVE totalEvidenceScore(_)
totalEvidenceScore(hyps) ==
  IF Len(hyps) = 0 THEN Num(0)
  ELSE LET sum == totalEvidenceScore(SubSeq(hyps, 1, Len(hyps) - 1))
           score == hyps[Len(hyps)].evidenceScore
       IN IF isNaN(sum) \/ isNaN(score) THEN NaN ELSE Num(sum.num + score.num)

\* averageEvidenceScore >= bound for a bound given in tenths, the average
\* being total / n: a comparison with NaN is false
averageAtLeast_strict(total, n, bound) == ~isNaN(total) /\ total.num > bound * n

averageAtLeast(total, n, bound) == ~isNaN(total) /\ total.num >= bound * n

\* (total / n).toFixed(2) as a count of hundredths, for an average that is
\* not half way between two hundredths
toFixed2(total, n) ==
  IF isNaN(total) THEN "NaN" ELSE ToString((2 * 10 * total.num + n) \div (2 * n))

\* the tier text check_for_breakthrough appends to the average (its emoji
\* left out)
breakthroughStatus(s) ==
  LET total == totalEvidenceScore(s.hypotheses)
      n == Len(s.hypotheses)
  IN IF averageAtLeast(total, n, 8)
     THEN " POTENTIAL BREAKTHROUGH DETECTED! High confidence in hypotheses."
     ELSE IF averageAtLeast(total, n, 6)
     THEN " Strong evidence supporting current hypotheses."
     ELSE IF averageAtLeast(total, n, 4)
     THEN " Moderate evidence. More research needed."
     ELSE " Low evidence. Consider refining hypotheses."

\* what check_for_breakthrough returns
check_for_breakthrough_content(s) ==
  IF Len(s.hypotheses) = 0
  THEN [text |-> "No hypotheses to check for breakthrough. Please form hypotheses first."]
  ELSE [averageEvidenceScore |-> toFixed2(totalEvidenceScore(s.hypotheses), Len(s.hypotheses)),
        breakthroughStatus |-> breakthroughStatus(s)]

\* const nextSteps = STAGE_TRANSITIONS[this.state.currentStage]
nextSteps_all(s) ==
  <<LiteratureReview, HypothesisFormation, ExperimentDesign, DataCollection, Analysis,
    Conclusion>>

nextSteps(s) == STAGE_TRANSITIONS[s.currentStage]

\* what get_state returns: the stage, the next stages and stateInfo
get_state_content(s) ==
  [currentStage |-> s.currentStage,
   nextSteps |-> nextSteps(s),
   stateInfo |->
     [currentStage |-> s.currentStage,
      problemStatement |-> s.problemStatement,
      literatureCount |-> Len(s.literature),
      hypothesesCount |-> Len(s.hypotheses),
      experimentsCount |-> Len(s.experiments),
      dataPointsCount |-> Len(s.data),
      hasAnalysis |-> s.analysis \notin {<<>>, <<"">>},
      conclusionsCount |-> Len(s.conclusions),
      averageEvidenceScore |->
        IF Len(s.hypotheses) > 0
        THEN toFixed2(totalEvidenceScore(s.hypotheses), Len(s.hypotheses))
        ELSE "N/A"]]

\* the content of the result of method op that ended as r: the texts of the
\* hypothesis methods and of the two reports; the other texts are not modelled
NoContent == [text |-> ""]

contentOf(op, input, r) ==
  IF r.outcome # Ok THEN NoContent
  ELSE CASE op = "hypothesis_formation" ->
              [text |-> "Hypothesis formed. Current stage: " \o r.state.currentStage]
         [] op = "hypothesis_generation" ->
              [text |-> "Generated " \o ToString(Len(input.hypotheses.arr))
                          \o " hypotheses. Current stage: " \o r.state.currentStage]
         [] op = "check_for_breakthrough" -> check_for_breakthrough_content(r.state)
         [] op = "get_state" -> get_state_content(r.state)
         [] OTHER -> NoContent

\* if (v): null and the empty text are falsy
truthy(v) == v \notin {<<>>, <<"">>}

\* the progress percentage of the peer review (reviewOverall)
calculateResearchProgress(s) ==
  (IF truthy(s.problemStatement) THEN 15 ELSE 0)
    + (IF Len(s.literature) > 0 THEN 15 ELSE 0)
    + (IF Len(s.hypotheses) > 0 THEN 20 ELSE 0)
    + (IF Len(s.experiments) > 0 THEN 15 ELSE 0)
    + (IF Len(s.data) > 0 THEN 15 ELSE 0)
    + (IF truthy(s.analysis) THEN 10 ELSE 0)
    + (IF Len(s.conclusions) > 0 THEN 10 ELSE 0)

peer_review_guidance(s, input) == safeExecute(Done(s))

\* the handler of the scientific_thinking tool: it runs the method of
\* input.stage, or of the current stage when none is given, on input.input;
\* its try/catch turns an error that left the method into a text
methodOf_restarts(s, input) ==
  IF input.stage.type = "undefined" THEN Observation ELSE input.stage.str

methodOf(s, input) ==
  IF input.stage.type = "undefined" THEN s.currentStage ELSE input.stage.str

\* the object the handler passes to that method
methodInput(s, input) ==
  LET currentStage == methodOf(s, input) IN
    CASE currentStage = Observation -> [problemStatement |-> input.input]
      [] currentStage = LiteratureReview -> [literature |-> input.input]
      [] currentStage = HypothesisFormation -> [hypothesis |-> input.input]
      [] currentStage = ExperimentDesign -> [experiment |-> input.input]
      [] currentStage = DataCollection -> [data |-> input.input]
      [] currentStage = Analysis -> [analysis |-> input.input]
      [] currentStage = Conclusion -> [conclusion |-> input.input]

scientific_thinking(s, input, id) ==
  LET currentStage == methodOf(s, input)
      arg == methodInput(s, input)
      r == CASE currentStage = Observation -> observation(s, arg)
             [] currentStage = LiteratureReview -> literature_review(s, arg)
             [] currentStage = HypothesisFormation -> hypothesis_formation(s, arg, id)
             [] currentStage = ExperimentDesign -> experiment_design(s, arg)
             [] currentStage = DataCollection -> data_collection(s, arg)
             [] currentStage = Analysis -> analysis(s, arg)
             [] currentStage = Conclusion -> conclusion(s, arg)
  IN [r EXCEPT !.raised = FALSE]

(***************************************************************************)
(* The inputs the tools are called with.  A client is a record of the      *)
(* values it passes for each argument; the two clients below differ in     *)
(* what they vary.                                                         *)
(***************************************************************************)
\* the readings of Date.now(), as toString(36) writes them
NowReadings == {"mh2k3x0a"}

GeneratedIds(draws) == {generateId(now, r) : now \in NowReadings, r \in draws}

\* a text long enough for every stage (26 characters)
Finding == "Cats purr at 25 to 150 Hz."

\* a client that walks the workflow, with valid and invalid texts
Researcher ==
  [problemStatements |->
     {Undefined, Str("too short"), Str(Finding), Str("Is the night sky dark?")},
   literatures |-> {Str(""), Str("too short a review"), Str(Finding)},
   hypothesisTexts |-> {Undefined, Str("too short"), Str(Finding)},
   hypothesisArrays |-> {<<>>, <<"Cats purr.">>},
   experiments |-> {Finding},
   dataTexts |-> {Finding},
   analysisTexts |-> {Finding},
   conclusions |-> {Finding},
   queries |-> {Undefined, Str("ab"), Str("cat purr")},
   dataArrays |-> {Arr(<<"25 Hz">>), Arr(<<"abc", "def">>), Arr(<<"25 Hz", "n=3; -.5">>)},
   thinkingStages |-> {Undefined} \cup {Str(stage) : stage \in Stage},
   thinkingInputs |-> {Str(Finding)},
   randomDraws |-> {1},
   hypothesisIds |-> {Str("zz"), Str(generateId("mh2k3x0a", 1))},
   scores |-> {Num(0 - 1), Num(ScoreUnit), Num(ScoreUnit + 1)},
   maxLen |-> MaxLen,
   maxEntries |-> MaxEntries]

\* a client that forms hypotheses and scores them
Scorer ==
  [problemStatements |-> {Str(Finding)},
   literatures |-> {Str(Finding)},
   hypothesisTexts |-> {Str("too short"), Str(Finding)},
   hypothesisArrays |-> {<<>>, <<"Cats purr.">>, <<"Cats purr.", "Dogs bark.">>},
   experiments |-> {},
   dataTexts |-> {},
   analysisTexts |-> {},
   conclusions |-> {},
   queries |-> {},
   dataArrays |-> {},
   thinkingStages |-> {},
   thinkingInputs |-> {},
   randomDraws |-> {0, 1},
   hypothesisIds |-> {Str(""), Str("zz")} \cup {Str(id) : id \in GeneratedIds({0, 1})},
   scores |-> {Num(0 - 1), Num(0), Num(5), Num(ScoreUnit), Num(ScoreUnit + 1), NaN},
   maxLen |-> MaxHypotheses,
   maxEntries |-> MaxHypotheses + 1]

\* a client that scores its hypotheses and asks for the two reports
Reporter ==
  [problemStatements |-> {Str(Finding)},
   literatures |-> {Str(Finding)},
   hypothesisTexts |-> {Str(Finding)},
   hypothesisArrays |-> {<<"Cats purr.">>},
   experiments |-> {},
   dataTexts |-> {},
   analysisTexts |-> {},
   conclusions |-> {},
   queries |-> {},
   dataArrays |-> {},
   thinkingStages |-> {},
   thinkingInputs |-> {},
   randomDraws |-> {0, 1},
   hypothesisIds |-> {Str(id) : id \in GeneratedIds({0, 1})},
   scores |-> {Num(1), Num(4), Num(6), Num(8), Num(9)},
   maxLen |-> MaxReported,
   maxEntries |-> MaxReported + 1]

\* a client that completes the workflow, with an analysis that may be the
\* empty text, and asks for the state at every stage
Completer ==
  [problemStatements |-> {Str("too short"), Str(Finding)},
   literatures |-> {Str(Finding)},
   hypothesisTexts |-> {Str(Finding)},
   hypothesisArrays |-> {<<"Cats purr.">>},
   experiments |-> {Finding},
   dataTexts |-> {Finding},
   analysisTexts |-> {"", Finding},
   conclusions |-> {Finding},
   queries |-> {},
   dataArrays |-> {},
   thinkingStages |-> {},
   thinkingInputs |-> {},
   randomDraws |-> {1},
   hypothesisIds |-> {},
   scores |-> {},
   maxLen |-> MaxReported,
   maxEntries |-> MaxReported + 3]

(***************************************************************************)
(* The specification: the engine is constructed once and then serves tool  *)
(* calls one at a time.                                                    *)
(***************************************************************************)
NoCall ==
  [tool |-> "none", op |-> "none", input |-> <<>>, outcome |-> Ok, raised |-> FALSE,
   output |-> NoContent]

entries(s) ==
  Len(s.literature) + Len(s.hypotheses) + Len(s.experiments) + Len(s.data)
    + Len(s.conclusions)

\* the model follows the engine while its sequences stay within the bounds
withinBounds(c, s) ==
  /\ Len(s.literature) <= c.maxLen
  /\ Len(s.hypotheses) <= c.maxLen
  /\ Len(s.experiments) <= c.maxLen
  /\ Len(s.data) <= c.maxLen
  /\ Len(s.conclusions) <= c.maxLen
  /\ entries(s) <= c.maxEntries

\* one call by client c of a tool that runs engine method op on input and
\* is left with r; the server takes the next request once the result of
\* this one is sent
ToolCall(c, tool, op, input, r) ==
  /\ lastCall = NoCall
  /\ withinBounds(c, r.state)
  /\ state' = r.state
  /\ lastCall' = [tool |-> tool, op |-> op, input |-> input,
                  outcome |-> r.outcome, raised |-> r.raised,
                  output |-> contentOf(op, input, r)]
  /\ UNCHANGED <<inFlight, numericData, replica>>

\* a tool bound to the engine method of its own name
Call(c, op, input, r) == ToolCall(c, op, op, input, r)

\* a second engine, new ScientificMethodEngine(), and the outcome of its
\* last call; it is driven only where two instances are compared
secondInstance == [state |-> getInitialState, outcome |-> Ok]

Init ==
  /\ state = getInitialState
  /\ lastCall = NoCall
  /\ inFlight = {}
  /\ numericData = <<>>
  /\ replica = secondInstance

ObservationTool(c) ==
  \E v \in c.problemStatements :
    LET input == [problemStatement |-> v] IN
      Call(c, "observation", input, observation(state, input))

LiteratureReviewTool(c) ==
  \E v \in c.literatures :
    LET input == [literature |-> v] IN
      Call(c, "literature_review", input, literature_review(state, input))

HypothesisFormationTool(c) ==
  \E v \in c.hypothesisTexts, id \in GeneratedIds(c.randomDraws) :
    LET input == [hypothesis |-> v] IN
      Call(c, "hypothesis_formation", input, hypothesis_formation(state, input, id))

HypothesisGenerationTool(c) ==
  \E a \in c.hypothesisArrays :
    \E ids \in [1..Len(a) -> GeneratedIds(c.randomDraws)] :
      LET input == [hypotheses |-> Arr(a)] IN
        Call(c, "hypothesis_generation", input, hypothesis_generation(state, input, ids))

ExperimentDesignTool(c) ==
  \E v \in c.experiments :
    LET input == [experiment |-> Str(v)] IN
      Call(c, "experiment_design", input, experiment_design(state, input))

DataCollectionTool(c) ==
  \E v \in c.dataTexts :
    LET input == [data |-> Str(v)] IN
      Call(c, "data_collection", input, data_collection(state, input))

AnalysisTool(c) ==
  \E v \in c.analysisTexts :
    LET input == [analysis |-> Str(v)] IN
      Call(c, "analysis", input, analysis(state, input))

ConclusionTool(c) ==
  \E v \in c.conclusions :
    LET input == [conclusion |-> Str(v)] IN
      Call(c, "conclusion", input, conclusion(state, input))

LiteratureSearchTool(c) ==
  \E v \in c.queries :
    LET input == [query |-> v] IN
      Call(c, "literature_search", input, literature_search(state, input))

DataAnalysisTool(c) ==
  \E v \in c.dataArrays :
    LET input == [data |-> v] IN
      Call(c, "data_analysis", input, data_analysis(state, input))

PeerReviewGuidanceTool(c) ==
  LET input == [focusArea |-> Undefined, reviewerType |-> Undefined] IN
    Call(c, "peer_review_guidance", input, peer_review_guidance(state, input))

ScoreHypothesisTool(c) ==
  \E id \in c.hypothesisIds, score \in c.scores :
    LET input == [hypothesisId |-> id, score |-> score] IN
      Call(c, "score_hypothesis", input, score_hypothesis(state, input))

ScientificThinkingTool(c) ==
  \E stage \in c.thinkingStages, v \in c.thinkingInputs :
    \E id \in GeneratedIds(c.randomDraws) :
      LET input == [stage |-> stage, input |-> v] IN
        ToolCall(c, "scientific_thinking", methodOf(state, input),
                 methodInput(state, input), scientific_thinking(state, input, id))

CheckForBreakthroughTool(c) ==
  Call(c, "check_for_breakthrough", <<>>, check_for_breakthrough(state))

GetStateTool(c) ==
  Call(c, "get_state", <<>>, get_state(state))

\* the handler's result goes back to the client
Respond ==
  /\ lastCall # NoCall
  /\ lastCall' = NoCall
  /\ UNCHANGED <<state, inFlight, numericData, replica>>

Next ==
  \/ ObservationTool(Researcher)
  \/ LiteratureReviewTool(Researcher)
  \/ HypothesisFormationTool(Researcher)
  \/ HypothesisGenerationTool(Researcher)
  \/ ExperimentDesignTool(Researcher)
  \/ DataCollectionTool(Researcher)
  \/ AnalysisTool(Researcher)
  \/ ConclusionTool(Researcher)
  \/ LiteratureSearchTool(Researcher)
  \/ DataAnalysisTool(Researcher)
  \/ PeerReviewGuidanceTool(Researcher)
  \/ ScoreHypothesisTool(Researcher)
  \/ CheckForBreakthroughTool(Researcher)
  \/ GetStateTool(Researcher)
  \/ ScientificThinkingTool(Researcher)
  \/ Respond

Spec == Init /\ [][Next]_vars

\* the hypothesis tools, with every id and score varied
NextScoring ==
  \/ ObservationTool(Scorer)
  \/ LiteratureReviewTool(Scorer)
  \/ HypothesisFormationTool(Scorer)
  \/ HypothesisGenerationTool(Scorer)
  \/ ScoreHypothesisTool(Scorer)
  \/ CheckForBreakthroughTool(Scorer)
  \/ GetStateTool(Scorer)
  \/ Respond

SpecScoring == Init /\ [][NextScoring]_vars

\* the hypothesis tools and the two reports
NextReporting ==
  \/ ObservationTool(Reporter)
  \/ LiteratureReviewTool(Reporter)
  \/ HypothesisFormationTool(Reporter)
  \/ HypothesisGenerationTool(Reporter)
  \/ ScoreHypothesisTool(Reporter)
  \/ CheckForBreakthroughTool(Reporter)
  \/ GetStateTool(Reporter)
  \/ Respond

SpecReporting == Init /\ [][NextReporting]_vars

\* the whole workflow, the state read at every stage
NextWorkflow ==
  \/ ObservationTool(Completer)
  \/ LiteratureReviewTool(Completer)
  \/ HypothesisFormationTool(Completer)
  \/ HypothesisGenerationTool(Completer)
  \/ ExperimentDesignTool(Completer)
  \/ DataCollectionTool(Completer)
  \/ AnalysisTool(Completer)
  \/ ConclusionTool(Completer)
  \/ CheckForBreakthroughTool(Completer)
  \/ GetStateTool(Completer)
  \/ Respond

SpecWorkflow == Init /\ [][NextWorkflow]_vars

(***************************************************************************)
(* Several requests in flight.  The handlers are async functions on one    *)
(* event loop: a handler runs from its start to its first await, or to its *)
(* end, without another handler running in between; what follows an await  *)
(* runs later, after any handlers that began meanwhile.  The engine        *)
(* methods contain no await.  inFlight holds the handlers that began and   *)
(* whose result is not yet sent.                                           *)
(***************************************************************************)
\* a client with several requests outstanding
Concurrent ==
  [problemStatements |-> {Str(Finding)},
   literatures |-> {Str("too short a review"), Str(Finding)},
   hypothesisTexts |-> {Str(Finding)},
   hypothesisArrays |-> {},
   experiments |-> {},
   dataTexts |-> {},
   analysisTexts |-> {},
   conclusions |-> {},
   queries |-> {},
   dataArrays |-> {},
   thinkingStages |-> {Undefined, Str(LiteratureReview)},
   thinkingInputs |-> {Str(Finding)},
   randomDraws |-> {1},
   hypothesisIds |-> {},
   scores |-> {},
   maxLen |-> MaxReported,
   maxEntries |-> MaxReported + 1]

\* the handler awaits the result of the method: only the literature_review
\* branch of scientific_thinking does
awaits(tool, op) == tool = "scientific_thinking" /\ op = "literature_review"

\* what the handler does to the engine after its await: it reads
\* engine.state.currentStage for the text of the next stages
afterAwait_transitions(s) ==
  IF includes(STAGE_TRANSITIONS[s.currentStage], ExperimentDesign)
  THEN [s EXCEPT !.currentStage = ExperimentDesign]
  ELSE s

afterAwait(s) == s

\* handler k of a tool begins: it runs method op on input, which leaves r,
\* and either awaits or goes on to its end
Begin(c, k, tool, op, input, r) ==
  /\ k \notin {f.call : f \in inFlight}
  /\ withinBounds(c, r.state)
  /\ state' = r.state
  /\ lastCall' = [tool |-> tool, op |-> op, input |-> input,
                  outcome |-> r.outcome, raised |-> r.raised,
                  output |-> contentOf(op, input, r)]
  /\ inFlight' = inFlight \cup
       {[call |-> k, tool |-> tool, op |-> op, outcome |-> r.outcome,
         stage |-> r.state.currentStage,
         awaiting |-> awaits(tool, op),
         nextSteps |-> IF awaits(tool, op) \/ tool # "scientific_thinking"
                       THEN <<>>
                       ELSE nextSteps(afterAwait(r.state))]}
  /\ UNCHANGED <<numericData, replica>>

BeginObservation(c) ==
  \E k \in 1..MaxInFlight, v \in c.problemStatements :
    LET input == [problemStatement |-> v] IN
      Begin(c, k, "observation", "observation", input, observation(state, input))

BeginLiteratureReview(c) ==
  \E k \in 1..MaxInFlight, v \in c.literatures :
    LET input == [literature |-> v] IN
      Begin(c, k, "literature_review", "literature_review", input,
            literature_review(state, input))

BeginHypothesisFormation(c) ==
  \E k \in 1..MaxInFlight, v \in c.hypothesisTexts :
    \E id \in GeneratedIds(c.randomDraws) :
      LET input == [hypothesis |-> v] IN
        Begin(c, k, "hypothesis_formation", "hypothesis_formation", input,
              hypothesis_formation(state, input, id))

BeginScientificThinking(c) ==
  \E k \in 1..MaxInFlight, stage \in c.thinkingStages, v \in c.thinkingInputs :
    \E id \in GeneratedIds(c.randomDraws) :
      LET input == [stage |-> stage, input |-> v] IN
        Begin(c, k, "scientific_thinking", methodOf(state, input),
              methodInput(state, input), scientific_thinking(state, input, id))

\* the awaited result arrives: the handler goes on from its await to its end
Resume ==
  \E f \in inFlight :
    /\ f.awaiting
    /\ state' = afterAwait(state)
    /\ inFlight' = (inFlight \ {f}) \cup
         {[f EXCEPT !.awaiting = FALSE, !.nextSteps = nextSteps(state')]}
    /\ UNCHANGED <<lastCall, numericData, replica>>

\* the result of a handler that reached its end is sent
Deliver ==
  \E f \in inFlight :
    /\ ~f.awaiting
    /\ inFlight' = inFlight \ {f}
    /\ UNCHANGED <<state, lastCall, numericData, replica>>

NextInFlight ==
  \/ BeginObservation(Concurrent)
  \/ BeginLiteratureReview(Concurrent)
  \/ BeginHypothesisFormation(Concurrent)
  \/ BeginScientificThinking(Concurrent)
  \/ Resume
  \/ Deliver

SpecInFlight == Init /\ [][NextInFlight]_vars

(***************************************************************************)
(* The statistics applied to every sample of numbers within the bounds.    *)
(***************************************************************************)
SampleValues == {1, 2, 4}

RECURSIVE Samples(_)
Samples(n) ==
  IF n = 0 THEN {<<>>}
  ELSE Samples(n - 1) \cup {Append(d, v) : d \in {e \in Samples(n - 1) : Len(e) = n - 1},
                                           v \in SampleValues}

AnalysisTypes == {"descriptive", "inferential", "correlation", "regression", "comprehensive"}

\* confidence levels in percent, and the alpha / 2 of each in thousandths
ConfidenceLevels == {90, 95, 99}

TailAreas == {50, 25, 5}

\* degrees of freedom on both sides of the normal approximation
DegreesOfFreedom == 0..31

\* values of |skewness| + |kurtosis| in tenths, on and next to the
\* breakpoints, and the NaN of a sample without spread
NormalityScores == {Num(5), Num(10), Num(11), Num(20), Num(21), NaN}

InitStatistics ==
  /\ state = getInitialState
  /\ lastCall = NoCall
  /\ inFlight = {}
  /\ numericData \in Samples(MaxSample)
  /\ replica = secondInstance

\* an engine function applied to the sample
Apply(op, input, output) ==
  /\ lastCall = NoCall
  /\ lastCall' = [tool |-> "data_analysis", op |-> op, input |-> input, outcome |-> Ok,
                  raised |-> FALSE, output |-> output]
  /\ UNCHANGED <<state, inFlight, numericData, replica>>

Percentile ==
  \E p \in {<<1, 4>>, <<1, 2>>, <<3, 4>>} :
    /\ Len(numericData) > 0
    /\ Apply("percentile", [sortedData |-> sortNumbers(numericData), p |-> p],
             [value |-> percentile(sortNumbers(numericData), p[1], p[2])])

DescriptiveStats ==
  Apply("calculateDescriptiveStats", [data |-> numericData],
        [stats |-> calculateDescriptiveStats(numericData)])

Correlations ==
  Apply("calculateCorrelations", [data |-> numericData],
        [stats |-> calculateCorrelations(numericData)])

RegressionAnalysis ==
  Apply("performRegressionAnalysis", [data |-> numericData],
        [stats |-> performRegressionAnalysis(numericData)])

\* data_analysis passes its default confidenceLevel, 0.95
StatisticalAnalysis ==
  \E analysisType \in AnalysisTypes, normalityScore \in NormalityScores :
    /\ Len(numericData) > 0
    /\ Apply("generateStatisticalAnalysis",
             [numericData |-> numericData, analysisType |-> analysisType],
             generateStatisticalAnalysis(numericData, analysisType, 95, normalityScore))

InferentialStats ==
  \E confidenceLevel \in ConfidenceLevels :
    /\ Len(numericData) > 0
    /\ Apply("calculateInferentialStats",
             [data |-> numericData, confidenceLevel |-> confidenceLevel],
             [stats |-> calculateInferentialStats(numericData, confidenceLevel)])

TCritical ==
  \E df \in DegreesOfFreedom, alpha \in TailAreas :
    Apply("getTCritical", [df |-> df, alpha |-> alpha],
          [value |-> getTCritical(df, alpha)])

HypothesisTests ==
  \E normalityScore \in NormalityScores :
    /\ Len(numericData) > 0
    /\ Apply("performHypothesisTests",
             [data |-> numericData, normalityScore |-> normalityScore],
             [tests |-> performHypothesisTests(numericData, normalityScore)])

NextStatistics ==
  \/ Percentile
  \/ DescriptiveStats
  \/ Correlations
  \/ RegressionAnalysis
  \/ StatisticalAnalysis
  \/ InferentialStats
  \/ TCritical
  \/ HypothesisTests
  \/ Respond

SpecStatistics == InitStatistics /\ [][NextStatistics]_vars

(***************************************************************************)
(* The workflow with the auxiliary tools called at every stage.            *)
(***************************************************************************)
\* a client that walks the workflow with accepted texts and calls the
\* auxiliary tools, with accepted and refused arguments, on the way
Assistant ==
  [problemStatements |-> {Str(Finding)},
   literatures |-> {Str(Finding)},
   hypothesisTexts |-> {Str(Finding)},
   hypothesisArrays |-> {},
   experiments |-> {Finding},
   dataTexts |-> {Finding},
   analysisTexts |-> {Finding},
   conclusions |-> {Finding},
   queries |-> {Str("ab"), Str("cat purr")},
   dataArrays |-> {Arr(<<"25 Hz">>), Arr(<<"25 Hz", "n=3; -.5">>)},
   thinkingStages |-> {},
   thinkingInputs |-> {},
   randomDraws |-> {1},
   hypothesisIds |-> {Str("zz"), Str(generateId("mh2k3x0a", 1))},
   scores |-> {Num(5), Num(ScoreUnit + 1)},
   maxLen |-> MaxReported,
   maxEntries |-> MaxReported + 3]

NextAuxiliary ==
  \/ ObservationTool(Assistant)
  \/ LiteratureReviewTool(Assistant)
  \/ HypothesisFormationTool(Assistant)
  \/ ExperimentDesignTool(Assistant)
  \/ DataCollectionTool(Assistant)
  \/ AnalysisTool(Assistant)
  \/ ConclusionTool(Assistant)
  \/ LiteratureSearchTool(Assistant)
  \/ DataAnalysisTool(Assistant)
  \/ PeerReviewGuidanceTool(Assistant)
  \/ ScoreHypothesisTool(Assistant)
  \/ CheckForBreakthroughTool(Assistant)
  \/ GetStateTool(Assistant)
  \/ Respond

SpecAuxiliary == Init /\ [][NextAuxiliary]_vars

(***************************************************************************)
(* The workflow driven through the unified tool alone.                     *)
(***************************************************************************)
\* a client that calls scientific_thinking without a stage
Thinker ==
  [problemStatements |-> {},
   literatures |-> {},
   hypothesisTexts |-> {},
   hypothesisArrays |-> {},
   experiments |-> {},
   dataTexts |-> {},
   analysisTexts |-> {},
   conclusions |-> {},
   queries |-> {},
   dataArrays |-> {},
   thinkingStages |-> {Undefined},
   thinkingInputs |-> {Str("too short"), Str(Finding)},
   randomDraws |-> {1},
   hypothesisIds |-> {},
   scores |-> {},
   maxLen |-> MaxReported,
   maxEntries |-> MaxReported + 4]

NextThinking ==
  \/ ScientificThinkingTool(Thinker)
  \/ GetStateTool(Thinker)
  \/ Respond

SpecThinking == Init /\ [][NextThinking]_vars

(***************************************************************************)
(* Two instances of the engine given the same calls.                       *)
(***************************************************************************)
\* a client that sends each of its calls to both instances
Replayer ==
  [problemStatements |-> {Str(Finding)},
   literatures |-> {Str(Finding)},
   hypothesisTexts |-> {Str("too short"), Str(Finding)},
   hypothesisArrays |-> {<<"Cats purr.">>},
   experiments |-> {Finding},
   dataTexts |-> {},
   analysisTexts |-> {},
   conclusions |-> {},
   queries |-> {},
   dataArrays |-> {},
   thinkingStages |-> {},
   thinkingInputs |-> {},
   randomDraws |-> {0, 1},
   hypothesisIds |-> {Str(id) : id \in GeneratedIds({0, 1})},
   scores |-> {Num(5), Num(ScoreUnit + 1)},
   maxLen |-> MaxReported,
   maxEntries |-> MaxReported + 1]

\* method op called with the same input on both instances: r is what it
\* leaves the first with and q the second
Replay(c, op, input, r, q) ==
  /\ lastCall = NoCall
  /\ withinBounds(c, r.state)
  /\ withinBounds(c, q.state)
  /\ state' = r.state
  /\ lastCall' = [tool |-> op, op |-> op, input |-> input,
                  outcome |-> r.outcome, raised |-> r.raised,
                  output |-> contentOf(op, input, r)]
  /\ replica' = [state |-> q.state, outcome |-> q.outcome]
  /\ UNCHANGED <<inFlight, numericData>>

ReplayObservation(c) ==
  \E v \in c.problemStatements :
    LET input == [problemStatement |-> v] IN
      Replay(c, "observation", input, observation(state, input),
             observation(replica.state, input))

ReplayLiteratureReview(c) ==
  \E v \in c.literatures :
    LET input == [literature |-> v] IN
      Replay(c, "literature_review", input, literature_review(state, input),
             literature_review(replica.state, input))

\* each instance draws its own id
ReplayHypothesisFormation(c) ==
  \E v \in c.hypothesisTexts, id \in GeneratedIds(c.randomDraws),
     other \in GeneratedIds(c.randomDraws) :
    LET input == [hypothesis |-> v] IN
      Replay(c, "hypothesis_formation", input, hypothesis_formation(state, input, id),
             hypothesis_formation(replica.state, input, other))

ReplayHypothesisGeneration(c) ==
  \E a \in c.hypothesisArrays :
    \E ids \in [1..Len(a) -> GeneratedIds(c.randomDraws)],
       others \in [1..Len(a) -> GeneratedIds(c.randomDraws)] :
      LET input == [hypotheses |-> Arr(a)] IN
        Replay(c, "hypothesis_generation", input,
               hypothesis_generation(state, input, ids),
               hypothesis_generation(replica.state, input, others))

ReplayExperimentDesign(c) ==
  \E v \in c.experiments :
    LET input == [experiment |-> Str(v)] IN
      Replay(c, "experiment_design", input, experiment_design(state, input),
             experiment_design(replica.state, input))

ReplayScoreHypothesis(c) ==
  \E id \in c.hypothesisIds, score \in c.scores :
    LET input == [hypothesisId |-> id, score |-> score] IN
      Replay(c, "score_hypothesis", input, score_hypothesis(state, input),
             score_hypothesis(replica.state, input))

NextReplay ==
  \/ ReplayObservation(Replayer)
  \/ ReplayLiteratureReview(Replayer)
  \/ ReplayHypothesisFormation(Replayer)
  \/ ReplayHypothesisGeneration(Replayer)
  \/ ReplayExperimentDesign(Replayer)
  \/ ReplayScoreHypothesis(Replayer)
  \/ Respond

SpecReplay == Init /\ [][NextReplay]_vars

(***************************************************************************)
(* Properties of the workflow.                                             *)
(***************************************************************************)
\* the transition table as the specification prints it
TransitionTable ==
  {<<Observation, LiteratureReview>>,
   <<LiteratureReview, HypothesisFormation>>,
   <<HypothesisFormation, ExperimentDesign>>,
   <<HypothesisFormation, HypothesisFormation>>,
   <<ExperimentDesign, DataCollection>>,
   <<DataCollection, Analysis>>,
   <<Analysis, Conclusion>>}

\* the stage operations and the stage each one moves to
StageOperations ==
  {"observation", "literature_review", "hypothesis_formation", "hypothesis_generation",
   "experiment_design", "data_collection", "analysis"}

TargetOf(op) ==
  CASE op = "observation" -> LiteratureReview
    [] op = "literature_review" -> HypothesisFormation
    [] op = "hypothesis_formation" -> ExperimentDesign
    [] op = "hypothesis_generation" -> HypothesisFormation
    [] op = "experiment_design" -> DataCollection
    [] op = "data_collection" -> Analysis
    [] op = "analysis" -> Conclusion

\* the input of a stage operation is one the specification accepts
ValidInput(call) ==
  CASE call.op = "observation" ->
         call.input.problemStatement.type = "string"
           /\ Len(call.input.problemStatement.str) >= 10
    [] call.op = "literature_review" ->
         call.input.literature.type = "string" /\ Len(call.input.literature.str) >= 20
    [] call.op = "hypothesis_formation" ->
         call.input.hypothesis.type = "string" /\ Len(call.input.hypothesis.str) >= 15
    [] call.op = "hypothesis_generation" -> Len(call.input.hypotheses.arr) >= 1
    [] OTHER -> TRUE

IsPrefix(a, b) == Len(a) <= Len(b) /\ SubSeq(b, 1, Len(a)) = a

\* C1: currentStage is always one of the seven stages, and every step that
\* changes it moves along an entry of the transition table.
C1_StageFollowsTable ==
  /\ [](state.currentStage \in Stage)
  /\ [][state'.currentStage # state.currentStage
          => <<state.currentStage, state'.currentStage>> \in TransitionTable]_vars

\* C1 witness: the workflow went through the table to its last stage.
C1_Witness ==
  /\ state.currentStage = Conclusion
  /\ lastCall.op = "analysis"
  /\ lastCall.outcome = Ok

\* C2 as claimed: a stage operation called where the table does not allow
\* its target ends in an invalid-transition error and leaves the whole state
\* as it was.
C2_InvalidTransitionLeavesState ==
  [][(/\ lastCall'.op \in StageOperations
      /\ ValidInput(lastCall')
      /\ <<state.currentStage, TargetOf(lastCall'.op)>> \notin TransitionTable)
       => (lastCall'.outcome = InvalidTransitionError /\ state' = state)]_vars

\* C3: a stage operation with valid input, called in a stage from which its
\* target is legal, succeeds and leaves currentStage at its target; over a
\* sequence of such calls currentStage is the composition of the targets.
C3_LegalCallReachesTarget ==
  [][(/\ lastCall'.op \in StageOperations
      /\ ValidInput(lastCall')
      /\ <<state.currentStage, TargetOf(lastCall'.op)>> \in TransitionTable)
       => (/\ lastCall'.outcome = Ok
           /\ state'.currentStage = TargetOf(lastCall'.op))]_vars

\* C3 witness: six legal calls in a row ended in Conclusion, each stage
\* having left its entry.
C3_Witness ==
  /\ state.currentStage = Conclusion
  /\ state.problemStatement # <<>>
  /\ Len(state.literature) = 1
  /\ Len(state.hypotheses) = 1
  /\ Len(state.experiments) = 1
  /\ Len(state.data) = 1
  /\ state.analysis # <<>>
  /\ lastCall.outcome = Ok

\* C4 as claimed: once problemStatement is set, no later operation changes
\* its value.
C4_ProblemStatementSetOnce ==
  [][state.problemStatement # <<>>
       => state'.problemStatement = state.problemStatement]_vars

\* C5: over every call, failed or not, literature, experiments, data and
\* conclusions before the call are prefixes of what they are after it.
C5_SequencesOnlyAppend ==
  [][/\ IsPrefix(state.literature, state'.literature)
     /\ IsPrefix(state.experiments, state'.experiments)
     /\ IsPrefix(state.data, state'.data)
     /\ IsPrefix(state.conclusions, state'.conclusions)]_vars

\* C5 witness: a call that failed its transition appended a second,
\* different entry after the first.
C5_Witness ==
  /\ Len(state.literature) = 2
  /\ state.literature[1] # state.literature[2]
  /\ lastCall.op = "literature_review"
  /\ lastCall.outcome = InvalidTransitionError

\* C6: hypotheses grows only at its end and only in hypothesis_formation and
\* hypothesis_generation; the id and description of a hypothesis never
\* change and none is removed or moved; evidenceScore changes only in
\* score_hypothesis.
C6_HypothesesAppendOnly ==
  [][LET before == state.hypotheses
         after == state'.hypotheses
     IN /\ Len(before) <= Len(after)
        /\ \A i \in 1..Len(before) :
             /\ after[i].id = before[i].id
             /\ after[i].description = before[i].description
             /\ (after[i].evidenceScore # before[i].evidenceScore
                   => lastCall'.op = "score_hypothesis")
        /\ (Len(before) < Len(after)
              => lastCall'.op \in {"hypothesis_formation", "hypothesis_generation"})]_vars

\* C6 witness: a scored hypothesis kept its place and score while another
\* was appended after it.
C6_Witness ==
  /\ Len(state.hypotheses) = 2
  /\ state.hypotheses[1].evidenceScore = Num(ScoreUnit)
  /\ state.hypotheses[1].description # state.hypotheses[2].description
  /\ lastCall.op = "hypothesis_generation"

\* a score is a number of the interval [0,1]
InUnitInterval(v) == v.type = "number" /\ ~isNaN(v) /\ v.num >= 0 /\ v.num <= ScoreUnit

\* the id matches a hypothesis of hyps
KnownId(hyps, id) == \E i \in 1..Len(hyps) : hyps[i].id = id

\* C7 as claimed: no two hypotheses of the state share an id.
C7_HypothesisIdsUnique ==
  \A i, j \in 1..Len(state.hypotheses) :
    i # j => state.hypotheses[i].id # state.hypotheses[j].id

\* C8 as claimed: the evidenceScore of every hypothesis is within [0,1],
\* whatever scores score_hypothesis was handed.
C8_EvidenceScoreInUnitInterval ==
  \A i \in 1..Len(state.hypotheses) : InUnitInterval(state.hypotheses[i].evidenceScore)

\* C9 as claimed: score_hypothesis with a score outside [0,1] ends in a
\* validation error whether or not the id is known; with a score inside
\* [0,1] and an id that matches no hypothesis it ends in a
\* hypothesis-not-found error; either way the state is left as it was.
C9_ScoreRejections ==
  [][(lastCall'.op = "score_hypothesis" /\ lastCall'.input.score.type = "number")
       => LET score == lastCall'.input.score
              id == lastCall'.input.hypothesisId.str
          IN /\ ~InUnitInterval(score)
                  => (lastCall'.outcome = ValidationError /\ state' = state)
             /\ (InUnitInterval(score) /\ ~KnownId(state.hypotheses, id))
                  => (lastCall'.outcome = HypothesisNotFoundError /\ state' = state)]_vars

\* C10 as claimed: score_hypothesis with a known id and a score in [0,1]
\* succeeds, 0 and 1 included, sets the evidenceScore of the hypothesis with
\* that id to the score and leaves currentStage, the other hypotheses and
\* every other field as they were.
C10_ScoreSetsOnlyThatHypothesis ==
  [][(/\ lastCall'.op = "score_hypothesis"
      /\ InUnitInterval(lastCall'.input.score)
      /\ KnownId(state.hypotheses, lastCall'.input.hypothesisId.str))
       => LET score == lastCall'.input.score
              id == lastCall'.input.hypothesisId.str
              before == state.hypotheses
              after == state'.hypotheses
          IN /\ lastCall'.outcome = Ok
             /\ Len(after) = Len(before)
             /\ \A i \in 1..Len(before) :
                  IF before[i].id = id
                  THEN after[i] = [before[i] EXCEPT !.evidenceScore = score]
                  ELSE after[i] = before[i]
             /\ [state' EXCEPT !.hypotheses = before] = state]_vars

\* C11: score_hypothesis is idempotent: after a successful call, the same
\* call made again succeeds and leaves the state the first call left.
C11_ScoreIdempotent ==
  [][(lastCall'.op = "score_hypothesis" /\ lastCall'.outcome = Ok)
       => score_hypothesis(state', lastCall'.input) =
            [state |-> state', outcome |-> Ok, raised |-> FALSE]]_vars

\* C11 witness: the second of two hypotheses was given the score 0.5.
C11_Witness ==
  /\ lastCall.op = "score_hypothesis"
  /\ lastCall.outcome = Ok
  /\ lastCall.input.score = Num(5)
  /\ Len(state.hypotheses) = 2
  /\ state.hypotheses[2].id = lastCall.input.hypothesisId.str
  /\ state.hypotheses[2].evidenceScore = Num(5)

\* the operations the dispatcher calls
DispatcherOperations ==
  StageOperations \cup {"conclusion", "score_hypothesis", "check_for_breakthrough", "get_state"}

\* C12 as claimed: no operation the dispatcher calls raises; each returns a
\* text, in whatever stage and with whatever input it is called.
C12_NoOperationRaises ==
  [][lastCall'.op \in DispatcherOperations => ~lastCall'.raised]_vars

\* a text shorter than min characters, an empty text or no value at all
TooShort(v, min) == v.type = "undefined" \/ (v.type = "string" /\ Len(v.str) < min)

\* C13: observation, literature_review and hypothesis_formation called with
\* a text shorter than 10, 20 and 15 characters, or with none, end in a
\* validation error and leave the whole state as it was, in every stage.
C13_ValidationPrecedesEffect ==
  [][(\/ lastCall'.op = "observation" /\ TooShort(lastCall'.input.problemStatement, 10)
      \/ lastCall'.op = "literature_review" /\ TooShort(lastCall'.input.literature, 20)
      \/ lastCall'.op = "hypothesis_formation" /\ TooShort(lastCall'.input.hypothesis, 15))
       => (lastCall'.outcome = ValidationError /\ state' = state)]_vars

\* C13 witness: a hypothesis of 9 characters was refused in the stage where
\* hypothesis_formation is legal.
C13_Witness ==
  /\ lastCall.op = "hypothesis_formation"
  /\ lastCall.input.hypothesis = Str("too short")
  /\ lastCall.outcome = ValidationError
  /\ state.currentStage = HypothesisFormation

\* C14 as claimed: hypothesis_generation called with an empty array is
\* rejected with a validation error, appends nothing and leaves the stage.
C14_EmptyGenerationRejected ==
  [][(lastCall'.op = "hypothesis_generation" /\ Len(lastCall'.input.hypotheses.arr) = 0)
       => (lastCall'.outcome = ValidationError /\ state' = state)]_vars

\* C15: hypothesis_generation called in HypothesisFormation with k >= 1
\* texts succeeds, appends k hypotheses in the order of the texts, each with
\* its text as description and evidenceScore 0, leaves currentStage at
\* HypothesisFormation and changes no other field.
C15_GenerationAppendsInOrder ==
  [][(/\ lastCall'.op = "hypothesis_generation"
      /\ state.currentStage = HypothesisFormation
      /\ Len(lastCall'.input.hypotheses.arr) >= 1)
       => LET texts == lastCall'.input.hypotheses.arr
              before == state.hypotheses
              after == state'.hypotheses
          IN /\ lastCall'.outcome = Ok
             /\ Len(after) = Len(before) + Len(texts)
             /\ SubSeq(after, 1, Len(before)) = before
             /\ \A i \in 1..Len(texts) :
                  /\ after[Len(before) + i].description = texts[i]
                  /\ after[Len(before) + i].evidenceScore = Num(0)
             /\ state'.currentStage = HypothesisFormation
             /\ [state' EXCEPT !.hypotheses = before] = state]_vars

\* C15 witness: a second call in HypothesisFormation appended two texts
\* after the hypothesis of the first.
C15_Witness ==
  /\ lastCall.op = "hypothesis_generation"
  /\ lastCall.outcome = Ok
  /\ state.currentStage = HypothesisFormation
  /\ Len(state.hypotheses) = 3
  /\ state.hypotheses[2].description = "Cats purr."
  /\ state.hypotheses[3].description = "Dogs bark."

\* C16 as claimed: the description of every hypothesis of the state has at
\* least 15 characters.
C16_DescriptionsAtLeast15 ==
  \A i \in 1..Len(state.hypotheses) : Len(state.hypotheses[i].description) >= 15

\* no character of any of the texts is a digit, so none holds a number
NoDigit(texts) ==
  \A i \in 1..Len(texts) : \A j \in 1..Len(texts[i]) : SubSeq(texts[i], j, j) \notin Digits

C18_AnalysisReachesConclusion ==
  [][(/\ lastCall'.op = "data_analysis"
      /\ state.currentStage = Analysis
      /\ lastCall'.input.data.type = "array"
      /\ Len(lastCall'.input.data.arr) >= 2
      /\ ~NoDigit(lastCall'.input.data.arr))
       => /\ lastCall'.outcome = Ok
          /\ state'.analysis # <<>>
          /\ state'.currentStage = Conclusion]_vars

\* C19: Conclusion is absorbing: a step taken in Conclusion leaves the stage
\* at Conclusion, and every conclusion call made there succeeds and appends
\* exactly its one entry to conclusions.
C19_ConclusionAbsorbing ==
  [][state.currentStage = Conclusion
       => /\ state'.currentStage = Conclusion
          /\ lastCall'.op = "conclusion"
               => /\ lastCall'.outcome = Ok
                  /\ state'.conclusions =
                       Append(state.conclusions, lastCall'.input.conclusion.str)]_vars

\* C19 witness: a second conclusion was appended in Conclusion.
C19_Witness ==
  /\ state.currentStage = Conclusion
  /\ lastCall.op = "conclusion"
  /\ lastCall.outcome = Ok
  /\ Len(state.conclusions) = 2
  /\ state.analysis # <<>>

\* the place of a stage in the order of the workflow
StageRank(stage) ==
  CASE stage = Observation -> 1
    [] stage = LiteratureReview -> 2
    [] stage = HypothesisFormation -> 3
    [] stage = ExperimentDesign -> 4
    [] stage = DataCollection -> 5
    [] stage = Analysis -> 6
    [] stage = Conclusion -> 7

\* C20: currentStage never moves to an earlier stage of the order
\* Observation < LiteratureReview < HypothesisFormation < ExperimentDesign <
\* DataCollection < Analysis < Conclusion, and never returns to Observation.
C20_StageNeverGoesBack ==
  [][/\ StageRank(state'.currentStage) >= StageRank(state.currentStage)
     /\ state.currentStage # Observation => state'.currentStage # Observation]_vars

\* C20 witness: in Conclusion a call that would lead back to the second
\* stage was made and refused.
C20_Witness ==
  /\ state.currentStage = Conclusion
  /\ lastCall.op = "observation"
  /\ lastCall.input.problemStatement = Str(Finding)
  /\ lastCall.outcome = InvalidTransitionError

(***************************************************************************)
(* Properties of the reports.                                              *)
(***************************************************************************)
\* the sum of the evidence scores of hyps, in tenths
RECURSIVE SumOfScores(_)
SumOfScores(hyps) ==
  IF hyps = <<>> THEN 0 ELSE Head(hyps).evidenceScore.num + SumOfScores(Tail(hyps))

\* the tier of a mean total / n of scores in tenths
TierOfMean(total, n) ==
  IF total >= 8 * n THEN "breakthrough"
  ELSE IF total >= 6 * n THEN "strong"
  ELSE IF total >= 4 * n THEN "moderate"
  ELSE "low"

\* the tier a report text names
TierOfText(text) ==
  CASE text = " POTENTIAL BREAKTHROUGH DETECTED! High confidence in hypotheses." ->
         "breakthrough"
    [] text = " Strong evidence supporting current hypotheses." -> "strong"
    [] text = " Moderate evidence. More research needed." -> "moderate"
    [] text = " Low evidence. Consider refining hypotheses." -> "low"
    [] OTHER -> "none"

ScoresOf(hyps) == [i \in 1..Len(hyps) |-> hyps[i].evidenceScore.num]

C22_ReportsReadOnly ==
  [][lastCall'.op \in {"get_state", "check_for_breakthrough"} => state' = state]_vars

C22_Witness ==
  /\ lastCall.op = "get_state"
  /\ lastCall.outcome = Ok
  /\ Len(state.hypotheses) = 2
  /\ ScoresOf(state.hypotheses) = <<4, 6>>

\* a stage operation called with an input the specification accepts
StageMethod(s, op) ==
  CASE op = "observation" -> observation(s, [problemStatement |-> Str(Finding)])
    [] op = "literature_review" -> literature_review(s, [literature |-> Str(Finding)])
    [] op = "hypothesis_formation" ->
         hypothesis_formation(s, [hypothesis |-> Str(Finding)], "mh2k3x0a1")
    [] op = "hypothesis_generation" ->
         hypothesis_generation(s, [hypotheses |-> Arr(<<"Cats purr.">>)],
                               <<"mh2k3x0a1">>)
    [] op = "experiment_design" -> experiment_design(s, [experiment |-> Str(Finding)])
    [] op = "data_collection" -> data_collection(s, [data |-> Str(Finding)])
    [] op = "analysis" -> analysis(s, [analysis |-> Str(Finding)])

\* the stages a stage operation can move to from s
MovesFrom(s) ==
  {StageMethod(s, op).state.currentStage :
     op \in {o \in StageOperations : StageMethod(s, o).outcome = Ok}}

Range(seq) == {seq[i] : i \in 1..Len(seq)}

\* C23: in every reachable state the next stages get_state reports are the
\* entry of the transition table for currentStage (two stages in
\* HypothesisFormation, none in Conclusion) and are exactly the stages a
\* stage operation can move to from that state
C23_NextStagesAreTheMoves ==
  LET reported == Range(contentOf("get_state", <<>>, get_state(state)).nextSteps) IN
    /\ reported = {t \in Stage : <<state.currentStage, t>> \in TransitionTable}
    /\ reported = MovesFrom(state)
    /\ state.currentStage = HypothesisFormation => Cardinality(reported) = 2
    /\ state.currentStage = Conclusion => reported = {}
    /\ lastCall.op = "get_state" => Range(lastCall.output.nextSteps) = reported

C23_Witness ==
  /\ lastCall.op = "get_state"
  /\ state.currentStage = HypothesisFormation
  /\ Range(lastCall.output.nextSteps) = {ExperimentDesign, HypothesisFormation}

\* C24 as claimed: get_state projects the full state, so that a caller reads
\* every field from it, the id and the evidenceScore of every hypothesis in
\* particular, and obtains the id score_hypothesis needs from the outputs
C24_StateReadable ==
  (lastCall.op = "get_state" /\ state.hypotheses # <<>>) =>
    /\ "hypotheses" \in DOMAIN lastCall.output.stateInfo
    /\ lastCall.output.stateInfo.hypotheses = state.hypotheses

\* the sum of the weights of the components present
ProgressWeights(s) ==
  (IF s.problemStatement # <<>> THEN 15 ELSE 0)
    + (IF s.literature # <<>> THEN 15 ELSE 0)
    + (IF s.hypotheses # <<>> THEN 20 ELSE 0)
    + (IF s.experiments # <<>> THEN 15 ELSE 0)
    + (IF s.data # <<>> THEN 15 ELSE 0)
    + (IF s.analysis # <<>> THEN 10 ELSE 0)
    + (IF s.conclusions # <<>> THEN 10 ELSE 0)

AllSevenPresent(s) ==
  /\ s.problemStatement # <<>>
  /\ s.literature # <<>>
  /\ s.hypotheses # <<>>
  /\ s.experiments # <<>>
  /\ s.data # <<>>
  /\ s.analysis # <<>>
  /\ s.conclusions # <<>>

\* C25 as claimed: the progress score is the sum of the weights of the
\* components present, lies in 0..100, is 0 in the initial state and is 100
\* exactly when all seven components are present
C25_ProgressIsSumOfWeights ==
  /\ calculateResearchProgress(state) = ProgressWeights(state)
  /\ calculateResearchProgress(state) \in 0..100
  /\ state = getInitialState => calculateResearchProgress(state) = 0
  /\ calculateResearchProgress(state) = 100 <=> AllSevenPresent(state)

(***************************************************************************)
(* Properties of concurrent requests.                                      *)
(***************************************************************************)
\* the mutation of a stage operation is in s2, made from s1
MutationDone(call, s1, s2) ==
  CASE call.op = "observation" -> s2.problemStatement = <<call.input.problemStatement.str>>
    [] call.op = "literature_review" ->
         s2.literature = Append(s1.literature, call.input.literature.str)
    [] call.op = "hypothesis_formation" ->
         /\ Len(s2.hypotheses) = Len(s1.hypotheses) + 1
         /\ s2.hypotheses[Len(s2.hypotheses)].description = call.input.hypothesis.str
    [] OTHER -> TRUE

\* C26: operations on one engine never overlap: the validation, the
\* mutation and the transition of an operation happen in one step, also
\* with several tool calls in flight; a handler that goes on after another
\* one began changes nothing, so no operation sees a state another one has
\* half updated
C26_OperationsAtomic ==
  [][/\ state' # state =>
          /\ inFlight \subseteq inFlight'
          /\ Cardinality(inFlight' \ inFlight) = 1
     /\ (inFlight \subseteq inFlight' /\ inFlight' # inFlight
           /\ lastCall'.op \in StageOperations /\ lastCall'.outcome = Ok) =>
          /\ ValidInput(lastCall')
          /\ MutationDone(lastCall', state, state')
          /\ state'.currentStage = TargetOf(lastCall'.op)
     /\ (inFlight \subseteq inFlight' /\ inFlight' # inFlight
           /\ lastCall'.outcome = ValidationError) =>
          state' = state]_vars

\* a call changed the state while another handler was at its await
C26_Witness ==
  /\ Cardinality(inFlight) = 2
  /\ \E f \in inFlight : f.awaiting /\ f.stage = HypothesisFormation
  /\ lastCall.op = "hypothesis_formation"
  /\ lastCall.outcome = Ok
  /\ state.currentStage = ExperimentDesign

(***************************************************************************)
(* Properties of the statistics.                                           *)
(***************************************************************************)
\* C27: for a sorted sample of length at least 1, percentile(sorted, 0.5) is
\* the middle element when the length is odd and the mean of the two middle
\* elements when it is even
C27_MedianIsMiddle ==
  (lastCall.op = "percentile" /\ lastCall.input.p = <<1, 2>>) =>
    LET sorted == lastCall.input.sortedData
        n == Len(sorted)
        median == lastCall.output.value
    IN /\ n >= 1
       /\ median.den > 0
       /\ IF n % 2 = 1
          THEN median.num = sorted[(n + 1) \div 2] * median.den
          ELSE 2 * median.num = (sorted[n \div 2] + sorted[(n \div 2) + 1]) * median.den

C27_Witness ==
  /\ lastCall.op = "percentile"
  /\ lastCall.input.p = <<1, 2>>
  /\ lastCall.input.sortedData = <<1, 2, 4, 4>>
  /\ lastCall.output.value = Quotient(6, 2)

\* C28: calculateCorrelations and performRegressionAnalysis return the empty
\* list for a sample of length 0, 1, 2 or 3 and a list that is not empty for
\* a sample of length 4 or more
C28_EmptyBelowFour ==
  lastCall.op \in {"calculateCorrelations", "performRegressionAnalysis"} =>
    (lastCall.output.stats = <<>> <=> Len(lastCall.input.data) \in 0..3)

C28_Witness ==
  /\ lastCall.op = "calculateCorrelations"
  /\ Len(lastCall.input.data) = 4
  /\ lastCall.output.stats # <<>>

\* C29 as claimed: calculateDescriptiveStats requires two numbers: for a
\* sample of fewer than two, a sample of exactly one included, it returns
\* the empty list and does not divide by n - 1 = 0
C29_DescriptiveNeedsTwo ==
  (lastCall.op = "calculateDescriptiveStats" /\ Len(lastCall.input.data) < 2) =>
    lastCall.output.stats = <<>>

\* the metrics a report names in any of its sections
MetricsOf(report) ==
  {report[section][i].metric :
     <<section, i>> \in {p \in (DOMAIN report) \X (1..8) :
                           /\ p[2] <= Len(report[p[1]])
                           /\ "metric" \in DOMAIN report[p[1]][p[2]]}}

\* C30 as claimed: the analysis of data_analysis in its default mode,
\* comprehensive, performs every advertised analysis, the regression with
\* its slope and R-squared included, when there are at least 4 numbers
C30_ComprehensiveHasRegression ==
  (/\ lastCall.op = "generateStatisticalAnalysis"
   /\ lastCall.input.analysisType = "comprehensive"
   /\ Len(lastCall.input.numericData) >= 4) =>
    {"Trend Slope", "R-squared"} \subseteq MetricsOf(lastCall.output)

(***************************************************************************)
(* Further properties of the workflow.                                     *)
(***************************************************************************)
\* C31 as claimed: the self-loop of HypothesisFormation is taken by
\* hypothesis_generation only: a successful hypothesis_formation made in
\* HypothesisFormation ends in ExperimentDesign, hypothesis_generation
\* succeeds only in HypothesisFormation, and no other operation completes a
\* transition from HypothesisFormation to HypothesisFormation
C31_SelfLoopOnlyByGeneration ==
  [][/\ (lastCall'.op = "hypothesis_formation" /\ lastCall'.outcome = Ok
           /\ state.currentStage = HypothesisFormation)
          => state'.currentStage = ExperimentDesign
     /\ (lastCall'.op = "hypothesis_generation" /\ lastCall'.outcome = Ok)
          => state.currentStage = HypothesisFormation
     /\ (lastCall'.op \in StageOperations \ {"hypothesis_generation"}
           /\ lastCall'.outcome = Ok /\ state.currentStage = HypothesisFormation)
          => state'.currentStage # HypothesisFormation]_vars

\* the entries of a list of tests with the given test type
TestsOfType(tests, testType) ==
  {tests[i] : i \in {j \in 1..Len(tests) : tests[j].testType = testType}}

\* |t| > cn / cd for the t of the sample, from its sums: t is
\* mean * sqrt(n) / stdDev
TAbove(data, cn, cd) ==
  LET n == Len(data)
      sum == sumOf(data)
      d == n * sumOfSquares(data) - sum * sum
  IN IF d = 0 THEN n > 1 /\ sum # 0
     ELSE sum * sum * (n - 1) * cd * cd > cn * cn * d

\* C32: the t-test is flagged significant exactly when its p-value is
\* below 0.05, which with the breakpoints of calculatePValue is exactly when
\* |tStat| > 2.5; a |tStat| in (2, 2.5] has p = 0.05 and is not significant;
\* the normality test is significant exactly when normalityScore > 2
C32_SignificantBelowCutoff ==
  lastCall.op = "performHypothesisTests" =>
    /\ \A t \in TestsOfType(lastCall.output.tests, "One-sample t-test") :
         /\ t.significant <=> t.pValue < 50
         /\ t.significant <=> TAbove(lastCall.input.data, 5, 2)
         /\ (TAbove(lastCall.input.data, 2, 1) /\ ~TAbove(lastCall.input.data, 5, 2))
              => (t.pValue = 50 /\ ~t.significant)
    /\ \A t \in TestsOfType(lastCall.output.tests, "Normality test (approximate)") :
         /\ t.significant <=> t.pValue < 50
         /\ t.significant <=>
              (~isNaN(lastCall.input.normalityScore)
                 /\ lastCall.input.normalityScore.num > 20)

\* a sample with |t| = 2.33, and a normality score of 1.1 with p = 0.05
C32_Witness ==
  /\ lastCall.op = "performHypothesisTests"
  /\ lastCall.input.data = <<1, 1, 1, 4>>
  /\ lastCall.input.normalityScore = Num(11)
  /\ \E t \in TestsOfType(lastCall.output.tests, "One-sample t-test") :
       t.pValue = 50 /\ ~t.significant
  /\ \E t \in TestsOfType(lastCall.output.tests, "Normality test (approximate)") :
       t.pValue = 50 /\ ~t.significant

\* the entry of the confidence interval in a list of inferential statistics
IntervalOf(stats) == stats[2]

\* C40: the margin of error does not depend on the confidence level:
\* getTCritical is a function of the degrees of freedom only (the table value
\* of the nearest listed df below 30, 1.96 from 30), so calls on the same
\* values with different confidence levels report the same margin and the
\* same significance tag
C40_MarginIgnoresConfidenceLevel ==
  /\ lastCall.op = "getTCritical" =>
       LET df == lastCall.input.df
           value == lastCall.output.value
       IN /\ \A alpha \in TailAreas : getTCritical(df, alpha) = value
          /\ df >= 30 => value = 1960
          /\ df < 30 =>
               \E k \in DOMAIN tTable :
                 /\ value = tTable[k]
                 /\ \A j \in DOMAIN tTable : distance(k, df) <= distance(j, df)
  /\ lastCall.op = "calculateInferentialStats" =>
       /\ \A c \in ConfidenceLevels :
         LET other == IntervalOf(calculateInferentialStats(lastCall.input.data, c))
             this == IntervalOf(lastCall.output.stats)
         IN /\ other.tCritical = this.tCritical
            /\ other.stdErrorSquared = this.stdErrorSquared
            /\ other.significance = this.significance
       /\ IntervalOf(lastCall.output.stats).tCritical =
            getTCritical(Len(lastCall.input.data) - 1, 25)

C40_Witness ==
  /\ lastCall.op = "calculateInferentialStats"
  /\ lastCall.input.confidenceLevel = 99
  /\ Len(lastCall.input.data) = 5
  /\ IntervalOf(lastCall.output.stats).tCritical = 2776
  /\ IntervalOf(lastCall.output.stats).metric = "99% Confidence Interval"

\* the artifacts recorded so far, one per successful stage operation
Recorded(s) ==
  (IF s.problemStatement # <<>> THEN 1 ELSE 0) + Len(s.literature) + Len(s.hypotheses)
    + Len(s.experiments) + Len(s.data) + (IF s.analysis # <<>> THEN 1 ELSE 0)

\* C33: scientific_thinking called without a stage dispatches the operation
\* of the current stage: with an input that operation accepts it never ends
\* in an invalid transition, each call before Conclusion advances currentStage
\* by exactly one stage, so that Conclusion is reached after exactly six
\* calls, and every further call appends one conclusion
C33_ThinkingAdvancesByOne ==
  /\ [][(lastCall'.tool = "scientific_thinking" /\ ValidInput(lastCall')) =>
          /\ lastCall'.op = state.currentStage
          /\ lastCall'.outcome = Ok
          /\ state.currentStage # Conclusion =>
               /\ StageRank(state'.currentStage) = StageRank(state.currentStage) + 1
               /\ Recorded(state') = Recorded(state) + 1
               /\ state'.conclusions = state.conclusions
          /\ state.currentStage = Conclusion =>
               /\ state'.currentStage = Conclusion
               /\ state'.conclusions = Append(state.conclusions, lastCall'.input.conclusion.str)
               /\ Recorded(state') = Recorded(state)]_vars
  /\ [][lastCall'.tool = "scientific_thinking" \/ state' = state]_vars
  /\ [](StageRank(state.currentStage) = Recorded(state) + 1)
  /\ [](state.currentStage = Conclusion <=> Recorded(state) = 6)

\* Conclusion reached by six calls, and a conclusion appended by a seventh
C33_Witness ==
  /\ lastCall.tool = "scientific_thinking"
  /\ lastCall.op = Conclusion
  /\ state.currentStage = Conclusion
  /\ Recorded(state) = 6
  /\ state.conclusions = <<Finding>>

\* C34 as claimed: the next stages a scientific_thinking call reports are the
\* table entry of the stage its own operation produced, also when another
\* tool call runs between the operation the handler awaited and the
\* handler's read of engine.state.currentStage
C34_NextStagesOfOwnOperation ==
  \A f \in inFlight :
    (f.tool = "scientific_thinking" /\ ~f.awaiting) =>
      Range(f.nextSteps) = {t \in Stage : <<f.stage, t>> \in TransitionTable}

AuxiliaryOperations ==
  {"literature_search", "data_analysis", "peer_review_guidance", "score_hypothesis",
   "check_for_breakthrough", "get_state"}

\* the stage operations that succeed from s with an accepted input
LegalFrom(s) == {op \in StageOperations : StageMethod(s, op).outcome = Ok}

\* C35: literature_search, data_analysis, peer_review_guidance,
\* score_hypothesis, check_for_breakthrough and get_state never change
\* currentStage and are accepted in every stage: none is refused by the
\* transition table, and a stage operation that was legal before one of them
\* is legal after it
C35_AuxiliaryKeepStage ==
  [][lastCall'.op \in AuxiliaryOperations =>
       /\ state'.currentStage = state.currentStage
       /\ lastCall'.outcome # InvalidTransitionError
       /\ ~lastCall'.raised
       /\ lastCall'.op \in {"peer_review_guidance", "check_for_breakthrough", "get_state"}
            => lastCall'.outcome = Ok
       /\ (lastCall'.op = "literature_search" /\ lastCall'.input.query.type = "string"
             /\ Len(lastCall'.input.query.str) >= 3)
            => lastCall'.outcome = Ok
       /\ LegalFrom(state) \subseteq LegalFrom(state')]_vars

\* a literature search accepted in the last stage
C35_Witness ==
  /\ lastCall.op = "literature_search"
  /\ lastCall.outcome = Ok
  /\ state.currentStage = Conclusion

\* C36 as claimed: a stage is reached only with the artifacts of all earlier
\* stages: beyond Observation the problem statement is set, beyond
\* LiteratureReview the literature is non-empty, beyond HypothesisFormation
\* there is a hypothesis, beyond ExperimentDesign an experiment, beyond
\* DataCollection a datum, and in Conclusion the analysis is set
C36_EarlierArtifactsExist ==
  /\ StageRank(state.currentStage) > StageRank(Observation) => state.problemStatement # <<>>
  /\ StageRank(state.currentStage) > StageRank(LiteratureReview) => state.literature # <<>>
  /\ StageRank(state.currentStage) > StageRank(HypothesisFormation) => state.hypotheses # <<>>
  /\ StageRank(state.currentStage) > StageRank(ExperimentDesign) => state.experiments # <<>>
  /\ StageRank(state.currentStage) > StageRank(DataCollection) => state.data # <<>>
  /\ state.currentStage = Conclusion => state.analysis # <<>>

\* C37 as claimed: an artifact is recorded only once its stage is reached:
\* literature, hypotheses, experiments and data are empty while currentStage
\* is before LiteratureReview, HypothesisFormation, ExperimentDesign and
\* DataCollection, the analysis is null before Analysis, the conclusions are
\* empty outside Conclusion, and the problem statement is null in a state
\* that no successful observation has left
C37_ArtifactOnlyOnceStageReached ==
  /\ StageRank(state.currentStage) < StageRank(LiteratureReview) => state.literature = <<>>
  /\ StageRank(state.currentStage) < StageRank(HypothesisFormation) => state.hypotheses = <<>>
  /\ StageRank(state.currentStage) < StageRank(ExperimentDesign) => state.experiments = <<>>
  /\ StageRank(state.currentStage) < StageRank(DataCollection) => state.data = <<>>
  /\ StageRank(state.currentStage) < StageRank(Analysis) => state.analysis = <<>>
  /\ state.currentStage # Conclusion => state.conclusions = <<>>
  /\ state.currentStage = Observation => state.problemStatement = <<>>

\* C38 as claimed: no operation lowers the progress score, an analysis call
\* that overwrites state.analysis and a call that fails included
C38_ProgressNeverDecreases ==
  [][calculateResearchProgress(state') >= calculateResearchProgress(state)]_vars

\* the state with every hypothesis id blanked
withoutIds(s) ==
  [s EXCEPT !.hypotheses = [i \in 1..Len(s.hypotheses) |-> [s.hypotheses[i] EXCEPT !.id = ""]]]

\* the state with every hypothesis id and evidence score blanked
withoutIdsAndScores(s) ==
  [s EXCEPT !.hypotheses =
     [i \in 1..Len(s.hypotheses) |->
        [s.hypotheses[i] EXCEPT !.id = "", !.evidenceScore = Num(0)]]]

\* C39 as claimed: two fresh instances given the same calls with the same
\* inputs return the same outcome for every call and are in states that are
\* equal except for the generated ids
C39_DeterministicUpToIds ==
  /\ lastCall # NoCall => replica.outcome = lastCall.outcome
  /\ withoutIds(replica.state) = withoutIds(state)

\* C39: two fresh instances given the same calls with the same inputs
\* return the same outcome for every call but score_hypothesis, whose two
\* outcomes differ only as success and unknown id, and are in states that
\* are equal except for the generated ids and the evidence scores
C39_DeterministicUpToIdsAndScoring ==
  /\ (lastCall # NoCall /\ lastCall.op # "score_hypothesis")
       => replica.outcome = lastCall.outcome
  /\ (lastCall.op = "score_hypothesis" /\ replica.outcome # lastCall.outcome)
       => {replica.outcome, lastCall.outcome} = {Ok, HypothesisNotFoundError}
  /\ withoutIdsAndScores(replica.state) = withoutIdsAndScores(state)

\* a score accepted by the first instance and refused by the second, which
\* drew another id for the same hypothesis
C39_Witness ==
  /\ lastCall.op = "score_hypothesis"
  /\ lastCall.outcome = Ok
  /\ replica.outcome = HypothesisNotFoundError
  /\ withoutIds(replica.state) # withoutIds(state)

====
